---- MODULE Spec2Model ----
(***************************************************************************)
(* Model of the cursor-trail effect of src/src/hooks/useWebGLGrid.ts: the  *)
(* trail of pointer samples, the uniform buffer built from it, the         *)
(* requestAnimationFrame loop, the resize path and the effect's mount and  *)
(* cleanup.  Everything runs on the UI thread, so every handler is one     *)
(* atomic action.                                                          *)
(*                                                                         *)
(* Numbers.  Times are milliseconds.  The influence 1 - age/TRAIL_DURATION *)
(* is kept exactly, as its numerator over TRAIL_DURATION (Influence = 500  *)
(* stands for 1.0, 0 for 0.0); the Float32Array rounding of the stored     *)
(* value is monotone and leaves 0 and 1 unchanged.  Pointer inputs are     *)
(* chosen so that the scale canvas.width / rect.width divides exactly.     *)
(***************************************************************************)
EXTENDS Integers, Sequences, FiniteSets, TLC

\* ---- program constants (useWebGLGrid.ts:123-125) ----
TRAIL_MAX == 50
TRAIL_DURATION == 500
TRAIL_MIN_DIST == 8

\* ---- bounds of the exploration ----
MaxClock == 750
MaxTrail == 2
MaxHandle == 2
CapSlack == 1

\* rafId = null (line 197); handles returned by requestAnimationFrame are >= 1
NULL == 0

\* clock steps, container sizes and pointer offsets; the container has no
\* border or transform, so its bounding rect has the size syncSize copied
Step == TRAIL_DURATION \div 2
Sizes == {<<16, 16>>, <<32, 16>>}
FrameLags == {0, 1}
Offsets == {<<0, 0>>, <<8, 0>>, <<6, 6>>}
CapStep == TRAIL_DURATION + Step
CapSizes == {<<16, 16>>}
CapOffsets == {<<0, 0>>, <<16, 0>>}

GpuObjects == {"vert", "frag", "program", "vbo"}
DataIndex == 0 .. (TRAIL_MAX * 3 - 1)

VARIABLES
  lifecycle,   \* "Uninitialized" | "Active" | "TornDown"
  effectRan,   \* the effect body has run (the component mounted)
  gpu,         \* GPU object -> "none" | "live" | "deleted"
  listeners,   \* event types with a listener on the container
  roObserving, \* the ResizeObserver observes the container
  canvasW, canvasH,
  trail,       \* sequence of [x, y, t], newest first (trail[0] is trail[1] here)
  trailData,   \* the Float32Array, index 0 .. TRAIL_MAX*3-1
  rafId,       \* NULL or the handle of the last requested frame
  pending,     \* handles in the browser's animation-frame callback list
  nextHandle,  \* the handle the next requestAnimationFrame returns
  clock,       \* performance.now()
  last,        \* the handler that ran last, with the x, y, now it computed
  ops,         \* the calls the last handler made, in order
  hist         \* what the effect found at mount; whether a pointer event was handled

vars == <<lifecycle, effectRan, gpu, listeners, roObserving, canvasW, canvasH,
          trail, trailData, rafId, pending, nextHandle, clock, last, ops,
          hist>>

Max(a, b) == IF a >= b THEN a ELSE b

\* stale: how many non-zero values the handler's render found in buffer
\* slots beyond the live trail (left by a render of a longer trail)
Event(kind, x, y, now, stale) ==
  [kind |-> kind, x |-> x, y |-> y, now |-> now, stale |-> stale]

Stale(data, tr) ==
  Cardinality({i \in DOMAIN data : (i \div 3) >= Len(tr) /\ data[i] # 0})

\* ---- render (lines 200-215) ----

\* mutant: the fill is left out
Fill0Skip(data) == data

\* trailData.fill(0)
Fill0(data) == [i \in DOMAIN data |-> 0]

\* mutant: the clamp at 0 is left out
InfluenceNoClamp(age) == TRAIL_DURATION - age

\* Math.max(0, 1 - age / TRAIL_DURATION), in units of 1/TRAIL_DURATION
Influence(age) == Max(0, TRAIL_DURATION - age)

\* the loop of lines 203-209, writing over the buffer `data`
WriteTrail(data, tr, now) ==
  [i \in DOMAIN data |->
     IF (i \div 3) < Len(tr)
     THEN LET p == tr[(i \div 3) + 1]
          IN  CASE i % 3 = 0 -> p.x
                [] i % 3 = 1 -> p.y
                [] OTHER     -> Influence(now - p.t)
     ELSE data[i]]

\* lines 202-209: the buffer render hands to uniform3fv
BuildTrailData(data, tr, now) == WriteTrail(Fill0(data), tr, now)

RenderOps == <<"fill", "viewport", "clear", "uniform3fv", "drawArrays">>

\* ---- tick (lines 218-232) ----

\* while (trail.length > 0 && trail[trail.length - 1].t < cutoff) trail.pop()
Expired(p, cutoff) == p.t < cutoff

\* mutant: an `if` in place of the `while`, at most one entry is dropped
ExpireOne(tr, cutoff) ==
  IF Len(tr) > 0 /\ Expired(tr[Len(tr)], cutoff)
  THEN SubSeq(tr, 1, Len(tr) - 1)
  ELSE tr

RECURSIVE Expire(_, _)
Expire(tr, cutoff) ==
  IF Len(tr) > 0 /\ Expired(tr[Len(tr)], cutoff)
  THEN Expire(SubSeq(tr, 1, Len(tr) - 1), cutoff)
  ELSE tr

Pops(n) == [i \in 1 .. n |-> "pop"]

\* mutant: a perpetual loop
KeepsLoopingAlways(kept) == TRUE

\* mutant: tick never requests the next frame
KeepsLoopingNever(kept) == FALSE

\* line 227: the loop goes on while the trail is not empty
KeepsLooping(kept) == Len(kept) > 0

Tick(h, now) ==
  /\ h \in pending
  /\ LET cutoff == now - TRAIL_DURATION
         kept   == Expire(trail, cutoff)
     IN  /\ trail' = kept
         /\ trailData' = BuildTrailData(trailData, kept, now)
         /\ last' = Event("tick", 0, 0, now, Stale(trailData, kept))
         /\ IF KeepsLooping(kept)
            THEN /\ rafId' = nextHandle
                 /\ pending' = (pending \ {h}) \cup {nextHandle}
                 /\ nextHandle' = nextHandle + 1
                 /\ ops' = Pops(Len(trail) - Len(kept)) \o RenderOps
                             \o <<"requestAnimationFrame">>
            ELSE /\ rafId' = NULL
                 /\ pending' = pending \ {h}
                 /\ nextHandle' = nextHandle
                 /\ ops' = Pops(Len(trail) - Len(kept)) \o RenderOps
  /\ UNCHANGED <<lifecycle, effectRan, gpu, listeners, roObserving,
                 canvasW, canvasH, clock, hist>>

\* ---- startLoop (lines 234-236) ----
\* mutant: startLoop requests nothing
StartLoopNever(id) == FALSE

\* mutant: startLoop requests a frame whether or not one is pending
StartLoopAlways(id) == TRUE

StartLoopNeeded(id) == id = NULL

\* ---- onMouseMove (lines 239-261) ----
Dist2(x, y, p) == (x - p.x) * (x - p.x) + (y - p.y) * (y - p.y)

\* mutant: <= in place of <
TooCloseInclusive(tr, x, y) ==
  /\ Len(tr) > 0
  /\ Dist2(x, y, tr[1]) <= TRAIL_MIN_DIST * TRAIL_MIN_DIST

\* mutant: the oldest entry is compared in place of the newest
TooCloseToTail(tr, x, y) ==
  /\ Len(tr) > 0
  /\ Dist2(x, y, tr[Len(tr)]) < TRAIL_MIN_DIST * TRAIL_MIN_DIST

\* the early return of lines 250-255
TooClose(tr, x, y) ==
  /\ Len(tr) > 0
  /\ Dist2(x, y, tr[1]) < TRAIL_MIN_DIST * TRAIL_MIN_DIST

\* mutant: the cut is left out
TruncateOff(tr) == tr

\* mutant: the newest entries are cut in place of the oldest
TruncateHead(tr) ==
  IF Len(tr) > TRAIL_MAX THEN SubSeq(tr, Len(tr) - TRAIL_MAX + 1, Len(tr)) ELSE tr

\* lines 257-258: unshift, then cut to TRAIL_MAX
Truncate(tr) == IF Len(tr) > TRAIL_MAX THEN SubSeq(tr, 1, TRAIL_MAX) ELSE tr

\* mutant: push in place of unshift
UnshiftAtEnd(tr, x, y, now) == tr \o <<[x |-> x, y |-> y, t |-> now]>>

Unshift(tr, x, y, now) == <<[x |-> x, y |-> y, t |-> now]>> \o tr

\* the trail after onMouseMove computed (x, y, now)
Record(tr, x, y, now) ==
  IF TooClose(tr, x, y) THEN tr ELSE Truncate(Unshift(tr, x, y, now))

\* lines 240-245: (cx, cy) is the pointer offset from the bounding rect's
\* corner, (rw, rh) the bounding rect's size
SurfaceX(cx, rw) == (cx * canvasW) \div rw
SurfaceY(cy, rh) == canvasH - (cy * canvasH) \div rh

MouseMove(cx, cy, rw, rh) ==
  /\ "mousemove" \in listeners
  /\ LET x   == SurfaceX(cx, rw)
         y   == SurfaceY(cy, rh)
         now == clock
     IN  /\ last' = Event("mousemove", x, y, now, 0)
         /\ IF TooClose(trail, x, y)
            THEN /\ ops' = <<>>
                 /\ UNCHANGED <<trail, rafId, pending, nextHandle>>
            ELSE /\ trail' = Record(trail, x, y, now)
                 /\ IF StartLoopNeeded(rafId)
                    THEN /\ rafId' = nextHandle
                         /\ pending' = pending \cup {nextHandle}
                         /\ nextHandle' = nextHandle + 1
                         /\ ops' = <<"unshift">>
                              \o (IF Len(trail) + 1 > TRAIL_MAX
                                  THEN <<"truncate">> ELSE <<>>)
                              \o <<"requestAnimationFrame">>
                    ELSE /\ ops' = <<"unshift">>
                              \o (IF Len(trail) + 1 > TRAIL_MAX
                                  THEN <<"truncate">> ELSE <<>>)
                         /\ UNCHANGED <<rafId, pending, nextHandle>>
  /\ hist' = [hist EXCEPT !.pointer = TRUE]
  /\ UNCHANGED <<lifecycle, effectRan, gpu, listeners, roObserving,
                 canvasW, canvasH, trailData, clock>>

\* ---- onMouseLeave (lines 263-266) ----
MouseLeave ==
  /\ "mouseleave" \in listeners
  /\ IF StartLoopNeeded(rafId)
     THEN /\ rafId' = nextHandle
          /\ pending' = pending \cup {nextHandle}
          /\ nextHandle' = nextHandle + 1
          /\ ops' = <<"requestAnimationFrame">>
     ELSE /\ ops' = <<>>
          /\ UNCHANGED <<rafId, pending, nextHandle>>
  /\ last' = Event("mouseleave", 0, 0, clock, 0)
  /\ hist' = [hist EXCEPT !.pointer = TRUE]
  /\ UNCHANGED <<lifecycle, effectRan, gpu, listeners, roObserving,
                 canvasW, canvasH, trail, trailData, clock>>

\* ---- syncSize (lines 269-273), run by the ResizeObserver ----
\* (w, h) is the container's clientWidth and clientHeight
\* mutant: the height is copied from the width
SyncHeightFromWidth(w, h) == w

\* line 270: canvas.width = container.clientWidth
SyncWidth(w, h) == w

\* line 271: canvas.height = container.clientHeight
SyncHeight(w, h) == h

Resize(w, h) ==
  /\ roObserving
  /\ canvasW' = SyncWidth(w, h)
  /\ canvasH' = SyncHeight(w, h)
  /\ trailData' = BuildTrailData(trailData, trail, clock)
  /\ ops' = <<"setSize">> \o RenderOps
  /\ last' = Event("resize", w, h, clock, Stale(trailData, trail))
  /\ UNCHANGED <<lifecycle, effectRan, gpu, listeners, roObserving,
                 trail, rafId, pending, nextHandle, clock, hist>>

\* ---- the effect body (lines 149-281) ----
\* canvasOk, containerOk: the refs are set; glOk: getContext returned a
\* context; vertOk, fragOk, linkOk: the shader compiles and the link succeed
\* mutant: the check of the context is left out
MountFailsRefsOnly(canvasOk, containerOk, glOk) ==
  ~canvasOk \/ ~containerOk

MountFails(canvasOk, containerOk, glOk) ==
  ~canvasOk \/ ~containerOk \/ ~glOk

Mount(canvasOk, containerOk, glOk, vertOk, fragOk, linkOk, w, h) ==
  /\ ~effectRan
  /\ effectRan' = TRUE
  /\ last' = Event("mount", 0, 0, clock, 0)
  /\ hist' = [hist EXCEPT !.mount = <<canvasOk, containerOk, glOk,
                                      vertOk, fragOk, linkOk>>]
  /\ IF MountFails(canvasOk, containerOk, glOk)
     THEN /\ ops' = IF canvasOk /\ containerOk THEN <<"warn">> ELSE <<>>
          /\ UNCHANGED <<lifecycle, gpu, listeners, roObserving, canvasW,
                         canvasH, trailData>>
     ELSE IF ~vertOk
     THEN \* compileShader deletes the shader and throws (lines 90-94)
          /\ ops' = <<"createShader", "deleteShader", "throw">>
          /\ gpu' = [gpu EXCEPT !["vert"] = "deleted"]
          /\ UNCHANGED <<lifecycle, listeners, roObserving, canvasW,
                         canvasH, trailData>>
     ELSE IF ~fragOk
     THEN /\ ops' = <<"createShader", "createShader", "deleteShader", "throw">>
          /\ gpu' = [gpu EXCEPT !["vert"] = "live", !["frag"] = "deleted"]
          /\ UNCHANGED <<lifecycle, listeners, roObserving, canvasW,
                         canvasH, trailData>>
     ELSE IF ~linkOk
     THEN \* linkProgram deletes the program and throws (lines 108-112)
          /\ ops' = <<"createShader", "createShader", "createProgram",
                      "deleteProgram", "throw">>
          /\ gpu' = [gpu EXCEPT !["vert"] = "live", !["frag"] = "live",
                                !["program"] = "deleted"]
          /\ UNCHANGED <<lifecycle, listeners, roObserving, canvasW,
                         canvasH, trailData>>
     ELSE /\ gpu' = [o \in GpuObjects |-> "live"]
          /\ roObserving' = TRUE
          /\ canvasW' = SyncWidth(w, h)
          /\ canvasH' = SyncHeight(w, h)
          /\ trailData' = BuildTrailData(trailData, trail, clock)
          /\ listeners' = {"mousemove", "mouseleave"}
          /\ lifecycle' = "Active"
          /\ ops' = <<"createShader", "createShader", "createProgram",
                      "createBuffer", "observe", "setSize">> \o RenderOps
                      \o <<"addEventListener mousemove",
                           "addEventListener mouseleave">>
  /\ UNCHANGED <<trail, rafId, pending, nextHandle, clock>>

\* ---- the effect's cleanup (lines 283-292) ----
\* mutant: the pending frame is not cancelled
CancelFrameSkip(id, pend) == pend

CancelFrame(id, pend) == IF id # NULL THEN pend \ {id} ELSE pend

\* mutant: the GPU objects are deleted before the frame is cancelled
CleanupOpsDeleteFirst(id) ==
  <<"deleteProgram", "deleteShader vert", "deleteShader frag", "deleteBuffer">>
  \o (IF id # NULL THEN <<"cancelAnimationFrame">> ELSE <<>>)
  \o <<"disconnect", "removeEventListener mousemove",
       "removeEventListener mouseleave">>

CleanupOps(id) ==
  (IF id # NULL THEN <<"cancelAnimationFrame">> ELSE <<>>)
  \o <<"disconnect", "removeEventListener mousemove",
       "removeEventListener mouseleave", "deleteProgram",
       "deleteShader vert", "deleteShader frag", "deleteBuffer">>

Unmount ==
  /\ lifecycle = "Active"
  /\ pending' = CancelFrame(rafId, pending)
  /\ roObserving' = FALSE
  /\ listeners' = {}
  /\ gpu' = [o \in GpuObjects |-> "deleted"]
  /\ lifecycle' = "TornDown"
  /\ ops' = CleanupOps(rafId)
  /\ last' = Event("unmount", 0, 0, clock, 0)
  /\ UNCHANGED <<effectRan, canvasW, canvasH, trail, trailData, rafId,
                 nextHandle, clock, hist>>

\* ---- time ----
Advance(d) ==
  /\ clock + d <= MaxClock
  /\ clock' = clock + d
  /\ UNCHANGED <<lifecycle, effectRan, gpu, listeners, roObserving, canvasW,
                 canvasH, trail, trailData, rafId, pending, nextHandle,
                 last, ops, hist>>

\* the timestamp a frame callback receives: the start of the frame, which is
\* the current time or FrameLags ms before it
FrameTimes == {t \in {clock - lag : lag \in FrameLags} : t >= 0}

\* mutant: the loop is started when the state is set up
InitialLoopStarted == [rafId |-> 1, pending |-> {1}, nextHandle |-> 2]

\* line 197: let rafId = null, nothing requested yet
InitialLoop == [rafId |-> NULL, pending |-> {}, nextHandle |-> 1]

Init ==
  /\ lifecycle = "Uninitialized"
  /\ effectRan = FALSE
  /\ gpu = [o \in GpuObjects |-> "none"]
  /\ listeners = {}
  /\ roObserving = FALSE
  /\ canvasW = 300
  /\ canvasH = 150
  /\ trail = <<>>
  /\ trailData = [i \in DataIndex |-> 0]
  /\ rafId = InitialLoop.rafId
  /\ pending = InitialLoop.pending
  /\ nextHandle = InitialLoop.nextHandle
  /\ clock = 0
  /\ last = Event("init", 0, 0, 0, 0)
  /\ ops = <<>>
  /\ hist = [mount |-> <<>>, pointer |-> FALSE]

MountAny ==
  \E canvasOk, containerOk, glOk, vertOk, fragOk, linkOk \in BOOLEAN :
    \E s \in Sizes :
      Mount(canvasOk, containerOk, glOk, vertOk, fragOk, linkOk, s[1], s[2])

\* The exploration stops requesting frames after MaxHandle requests, stops
\* accepting samples at MaxTrail entries, and does not follow the clock after the
\* cleanup (no handler is left to read it).
Next ==
  \/ MountAny
  \/ Unmount
  \/ /\ \E o \in Offsets : MouseMove(o[1], o[2], canvasW, canvasH)
     /\ Len(trail') <= MaxTrail
     /\ nextHandle' <= MaxHandle + 1
  \/ /\ MouseLeave
     /\ nextHandle' <= MaxHandle + 1
  \/ \E s \in Sizes : Resize(s[1], s[2])
  \/ /\ \E h \in pending, now \in FrameTimes : Tick(h, now)
     /\ nextHandle' <= MaxHandle + 1
  \/ /\ lifecycle # "TornDown"
     /\ Advance(Step)

Spec == Init /\ [][Next]_vars

\* The browser runs every requested frame callback that is not cancelled,
\* and time goes on as long as the page lives.
FrameFires ==
  /\ \E h \in pending, now \in FrameTimes : Tick(h, now)
  /\ nextHandle' <= MaxHandle + 1

TimePasses ==
  /\ lifecycle # "TornDown"
  /\ Advance(Step)

SpecLive == Spec /\ WF_vars(FrameFires) /\ WF_vars(TimePasses)

\* ---- the capacity exploration ----
\* A burst of pointer samples zigzags between two far-apart points and
\* fills the trail before the first frame fires; frames, resizes, pointer
\* leaves, the cleanup and the clock are followed once the trail is within
\* CapSlack entries of TRAIL_MAX.
CapReady == Len(trail) >= TRAIL_MAX - CapSlack

NextCap ==
  \/ \E s \in CapSizes : Mount(TRUE, TRUE, TRUE, TRUE, TRUE, TRUE, s[1], s[2])
  \/ /\ CapReady
     /\ Unmount
  \/ /\ \E o \in CapOffsets : MouseMove(o[1], o[2], canvasW, canvasH)
     /\ nextHandle' <= MaxHandle + 1
  \/ /\ CapReady
     /\ MouseLeave
     /\ nextHandle' <= MaxHandle + 1
  \/ /\ CapReady
     /\ \E s \in CapSizes : Resize(s[1], s[2])
  \/ /\ CapReady
     /\ \E h \in pending : Tick(h, clock)
     /\ nextHandle' <= MaxHandle + 1
  \/ /\ CapReady
     /\ lifecycle # "TornDown"
     /\ Advance(CapStep)

SpecCap == Init /\ [][NextCap]_vars

\* ======================================================================
\* Claims
\* ======================================================================

Has(seq, call) == \E i \in 1 .. Len(seq) : seq[i] = call
Rendered == Has(ops, "uniform3fv")

\* C1: after a tick, no point whose age at that tick was >= TRAIL_DURATION is
\* left in the trail, and if that leaves the trail empty no frame is scheduled.
\* (The code keeps a point of age exactly TRAIL_DURATION: line 221 tests
\* t < cutoff.)
C1_ExpiredAbsent ==
  last.kind = "tick" =>
    /\ \A i \in 1 .. Len(trail) : last.now - trail[i].t < TRAIL_DURATION
    /\ (trail = <<>> => rafId = NULL /\ pending = {})

\* C2 as stated: a frame callback is requested only while the trail is
\* non-empty.
C2_RequestedOnlyNonEmpty ==
  [][(pending' \ pending # {}) => Len(trail') > 0]_vars

\* C2 as amended: a frame callback is requested only while the trail is
\* non-empty or by a pointer-leave event, and a tick that leaves the trail
\* empty schedules nothing (rafId is null and no callback is pending).
C2_RequestedOnDemand ==
  /\ [](last.kind = "tick" /\ trail = <<>> => rafId = NULL /\ pending = {})
  /\ [][(pending' \ pending # {}) =>
          (Len(trail') > 0 \/ (last'.kind = "mouseleave" /\ clock' = clock))]_vars

\* a tick expired the whole trail and stopped the loop
C2_Witness ==
  /\ last.kind = "tick"
  /\ Has(ops, "pop")
  /\ trail = <<>>
  /\ rafId = NULL
  /\ pending = {}

\* C3: once torn down, the instance stays torn down, no handler runs any more
\* (no render, no draw, no change of the trail or of the buffer), no frame
\* callback is pending, no listener or observer is left, and no draw call is
\* ever made on a deleted program.
C3_TornDownIsFinal ==
  /\ [](lifecycle = "TornDown" =>
          /\ pending = {}
          /\ listeners = {}
          /\ ~roObserving
          /\ last.kind = "unmount")
  /\ [](Has(ops, "drawArrays") => gpu["program"] = "live")
  /\ [][lifecycle = "TornDown" =>
          UNCHANGED <<lifecycle, trail, trailData, rafId, pending, gpu,
                      canvasW, canvasH, last, ops>>]_vars

\* the cleanup ran while a frame was pending for a non-empty trail
C3_Witness ==
  /\ lifecycle = "TornDown"
  /\ trail # <<>>
  /\ rafId # NULL
  /\ Has(ops, "cancelAnimationFrame")
  /\ \A o \in GpuObjects : gpu[o] = "deleted"

\* C4: the trail never holds more than TRAIL_MAX entries.
C4_TrailBounded == Len(trail) <= TRAIL_MAX

\* a sample was accepted into a full trail
C4_Witness ==
  /\ last.kind = "mousemove"
  /\ Has(ops, "truncate")
  /\ Len(trail) = TRAIL_MAX

\* C5: a pointer-move with surface coordinates (x, y) at time now is recorded
\* iff the trail is empty or (x, y) is at squared distance >= TRAIL_MIN_DIST^2
\* from trail[0]; an accepted sample becomes index 0 with the older entries
\* behind it in their order; a rejected one changes neither the trail nor the
\* pending frame.  (0,0) then (3,0) keeps one entry; (0,0,0) then (10,0,10)
\* gives [(10,0,10), (0,0,0)].
C5_Point(x, y, t) == [x |-> x, y |-> y, t |-> t]

C5_Examples ==
  /\ Record(Record(<<>>, 0, 0, 0), 3, 0, 10) = <<C5_Point(0, 0, 0)>>
  /\ Record(Record(<<>>, 0, 0, 0), 10, 0, 10)
       = <<C5_Point(10, 0, 10), C5_Point(0, 0, 0)>>

C5_RecordIff ==
  /\ []C5_Examples
  /\ [][(last'.kind = "mousemove" /\ clock' = clock) =>
          LET x == last'.x
              y == last'.y
              far == \/ trail = <<>>
                     \/ (x - trail[1].x) * (x - trail[1].x)
                          + (y - trail[1].y) * (y - trail[1].y)
                        >= TRAIL_MIN_DIST * TRAIL_MIN_DIST
          IN  IF far
              THEN /\ Len(trail') = (IF Len(trail) < TRAIL_MAX
                                     THEN Len(trail) + 1 ELSE TRAIL_MAX)
                   /\ trail'[1] = C5_Point(x, y, last'.now)
                   /\ \A i \in 2 .. Len(trail') : trail'[i] = trail[i - 1]
              ELSE /\ trail' = trail
                   /\ rafId' = rafId
                   /\ pending' = pending]_vars

\* a sample other than the head was rejected behind two accepted ones
C5_Witness ==
  /\ last.kind = "mousemove"
  /\ ops = <<>>
  /\ Len(trail) = 2
  /\ <<last.x, last.y>> # <<trail[1].x, trail[1].y>>

\* C6: adjacent entries of the trail are at distance >= TRAIL_MIN_DIST.
C6_AdjacentApart ==
  \A i \in 1 .. Len(trail) - 1 :
    (trail[i].x - trail[i + 1].x) * (trail[i].x - trail[i + 1].x)
      + (trail[i].y - trail[i + 1].y) * (trail[i].y - trail[i + 1].y)
    >= TRAIL_MIN_DIST * TRAIL_MIN_DIST

\* a tick expired the tail of a trail that had been cut to TRAIL_MAX
C6_Witness ==
  /\ last.kind = "tick"
  /\ Has(ops, "pop")
  /\ Len(trail) >= TRAIL_MAX - 1

\* C7: after a render, every buffer slot at or beyond the trail's length
\* holds (0, 0, 0), and the buffer always has TRAIL_MAX * 3 elements.
C7_InactiveSlotsZero ==
  /\ DOMAIN trailData = 0 .. (TRAIL_MAX * 3 - 1)
  /\ Rendered =>
       \A i \in DOMAIN trailData : (i \div 3) >= Len(trail) => trailData[i] = 0

\* a render of a shorter trail cleared values left by a longer one
C7_Witness ==
  /\ Rendered
  /\ last.stale > 0
  /\ trail # <<>>
  /\ Len(trail) < TRAIL_MAX
  /\ trailData[Len(trail) * 3 + 2] = 0

\* C8: the cleanup cancels the pending frame (if any) first, then disconnects
\* the resize observer, then removes the two listeners, then deletes the
\* program, the two shaders and the vertex buffer.
C8_Index(call) == CHOOSE i \in 1 .. Len(ops) : ops[i] = call

C8_TeardownOrder ==
  last.kind = "unmount" =>
    /\ Has(ops, "cancelAnimationFrame") <=> rafId # NULL
    /\ Has(ops, "cancelAnimationFrame") => ops[1] = "cancelAnimationFrame"
    /\ \A c \in {"disconnect", "removeEventListener mousemove",
                 "removeEventListener mouseleave", "deleteProgram",
                 "deleteShader vert", "deleteShader frag", "deleteBuffer"} :
         Cardinality({i \in 1 .. Len(ops) : ops[i] = c}) = 1
    /\ \A r \in {"removeEventListener mousemove",
                 "removeEventListener mouseleave"} :
         /\ C8_Index("disconnect") < C8_Index(r)
         /\ \A d \in {"deleteProgram", "deleteShader vert",
                      "deleteShader frag", "deleteBuffer"} :
              C8_Index(r) < C8_Index(d)

\* the cleanup of an instance with a pending frame: all eight calls
C8_Witness ==
  /\ last.kind = "unmount"
  /\ lifecycle = "TornDown"
  /\ Len(ops) = 8

\* C9: a tick expires first (no entry older than TRAIL_DURATION is left),
\* then rebuilds the buffer from the entries left, then draws exactly once,
\* then requests exactly one frame if the trail is not empty and none, with
\* rafId null, if it is.
C9_TickOrder ==
  last.kind = "tick" =>
    LET pops == Cardinality({i \in 1 .. Len(ops) : ops[i] = "pop"})
        rest == SubSeq(ops, pops + 1, Len(ops))
    IN  /\ \A i \in 1 .. pops : ops[i] = "pop"
        /\ \A i \in 1 .. Len(trail) : last.now - trail[i].t <= TRAIL_DURATION
        /\ \A i \in 1 .. Len(trail) :
             /\ trailData[(i - 1) * 3] = trail[i].x
             /\ trailData[(i - 1) * 3 + 1] = trail[i].y
        /\ \A i \in DOMAIN trailData :
             (i \div 3) >= Len(trail) => trailData[i] = 0
        /\ Len(rest) >= 5
        /\ rest[1] = "fill"
        /\ rest[5] = "drawArrays"
        /\ Cardinality({i \in 1 .. Len(ops) : ops[i] = "drawArrays"}) = 1
        /\ IF trail # <<>>
           THEN /\ Len(rest) = 6
                /\ rest[6] = "requestAnimationFrame"
                /\ rafId # NULL
                /\ pending = {rafId}
           ELSE /\ Len(rest) = 5
                /\ rafId = NULL
                /\ pending = {}

\* a tick expired one entry, kept another and requested the next frame
C9_Witness ==
  /\ last.kind = "tick"
  /\ Has(ops, "pop")
  /\ Len(trail) = 1
  /\ pending = {rafId}

\* C10: the influence render stores for an entry of age a is
\* max(0, 1 - a / TRAIL_DURATION): 1 at age 0, 0 at every age >=
\* TRAIL_DURATION, and never larger for an older entry than for a newer one.
\* (Stored values are numerators over TRAIL_DURATION.)
C10_Age(i) == last.now - trail[i].t
C10_Stored(i) == trailData[(i - 1) * 3 + 2]

C10_InfluenceDecay ==
  Rendered =>
    /\ \A i \in 1 .. Len(trail) :
         /\ C10_Stored(i) = (IF TRAIL_DURATION - C10_Age(i) > 0
                             THEN TRAIL_DURATION - C10_Age(i) ELSE 0)
         /\ C10_Age(i) = 0 => C10_Stored(i) = TRAIL_DURATION
         /\ C10_Age(i) >= TRAIL_DURATION => C10_Stored(i) = 0
    /\ \A i, j \in 1 .. Len(trail) :
         C10_Age(i) <= C10_Age(j) => C10_Stored(i) >= C10_Stored(j)

\* a render stored influence 1 for a fresh entry and 0 for one of age
\* TRAIL_DURATION + Step
C10_Witness ==
  /\ Rendered
  /\ Len(trail) = 2
  /\ C10_Age(1) = 0
  /\ C10_Stored(1) = TRAIL_DURATION
  /\ C10_Age(2) > TRAIL_DURATION
  /\ C10_Stored(2) = 0

\* C11: a pointer-leave changes neither the trail nor the buffer; after it
\* exactly one frame callback is pending: the one that was pending before,
\* or a newly requested one if none was.
C11_LeaveOnlyStartsLoop ==
  [][(last'.kind = "mouseleave" /\ clock' = clock) =>
       /\ trail' = trail
       /\ trailData' = trailData
       /\ rafId' # NULL
       /\ pending' = {rafId'}
       /\ IF rafId # NULL
          THEN rafId' = rafId /\ pending' = pending
          ELSE rafId' \notin pending /\ pending' = pending \cup {rafId'}]_vars

\* a pointer-leave on an idle instance requested a frame
C11_Witness ==
  /\ last.kind = "mouseleave"
  /\ ops = <<"requestAnimationFrame">>
  /\ pending = {rafId}
  /\ hist.pointer

\* C12: a resize to a container of size (w, h) sets the surface to (w, h),
\* renders once with the trail as it is, and changes neither the trail nor
\* rafId nor the pending callbacks.
C12_ResizeRendersOnce ==
  [][(last'.kind = "resize" /\ clock' = clock) =>
       /\ canvasW' = last'.x
       /\ canvasH' = last'.y
       /\ trail' = trail
       /\ rafId' = rafId
       /\ pending' = pending
       /\ Cardinality({i \in 1 .. Len(ops') : ops'[i] = "drawArrays"}) = 1
       /\ \A i \in 1 .. Len(trail) :
            /\ trailData'[(i - 1) * 3] = trail[i].x
            /\ trailData'[(i - 1) * 3 + 1] = trail[i].y
       /\ \A i \in DOMAIN trailData' :
            (i \div 3) >= Len(trail) => trailData'[i] = 0]_vars

\* a resize to a wider container re-rendered a trail older than
\* TRAIL_DURATION while a frame was pending
C12_Witness ==
  /\ last.kind = "resize"
  /\ canvasW # canvasH
  /\ trail # <<>>
  /\ last.now - trail[Len(trail)].t > TRAIL_DURATION
  /\ pending = {rafId}

\* C13: when the canvas, the container or the context is missing at mount,
\* the instance stays Uninitialized for good, with no listener, no observer,
\* no frame requested, no draw, no GPU object and no exception.
C13_Missing ==
  /\ hist.mount # <<>>
  /\ (~hist.mount[1] \/ ~hist.mount[2] \/ ~hist.mount[3])

C13_NeverActive ==
  C13_Missing =>
    /\ lifecycle = "Uninitialized"
    /\ listeners = {}
    /\ ~roObserving
    /\ pending = {}
    /\ rafId = NULL
    /\ nextHandle = 1
    /\ ~Has(ops, "drawArrays")
    /\ ~Has(ops, "throw")
    /\ \A o \in GpuObjects : gpu[o] = "none"
    /\ trail = <<>>

\* the refs were set but no context could be acquired; time went on
C13_Witness ==
  /\ hist.mount # <<>>
  /\ hist.mount[1]
  /\ hist.mount[2]
  /\ ~hist.mount[3]
  /\ ops = <<"warn">>
  /\ clock > 0

\* C14: as long as no pointer-move or pointer-leave was handled, no frame
\* callback has been requested (mount and resizes request none), and a
\* cleanup then runs with nothing to cancel and deletes every GPU object.
C14_IdleUntilPointer ==
  ~hist.pointer =>
    /\ pending = {}
    /\ rafId = NULL
    /\ nextHandle = 1
    /\ ~Has(ops, "requestAnimationFrame")
    /\ lifecycle = "TornDown" =>
         /\ ~Has(ops, "cancelAnimationFrame")
         /\ Len(ops) = 7
         /\ \A o \in GpuObjects : gpu[o] = "deleted"
         /\ listeners = {}
         /\ ~roObserving

\* the cleanup ran after a mount and nothing else but resizes
C14_Witness ==
  /\ ~hist.pointer
  /\ lifecycle = "TornDown"
  /\ clock > 0
  /\ canvasW # canvasH

\* C15: a sample accepted into a trail of TRAIL_MAX entries drops exactly the
\* last entry, whose timestamp is the smallest; the other entries follow the
\* new head in their order.
C15_DropsOldest ==
  [][(last'.kind = "mousemove" /\ clock' = clock /\ Has(ops', "unshift")
        /\ Len(trail) = TRAIL_MAX) =>
       /\ Len(trail') = TRAIL_MAX
       /\ trail'[1] = [x |-> last'.x, y |-> last'.y, t |-> last'.now]
       /\ \A i \in 2 .. TRAIL_MAX : trail'[i] = trail[i - 1]
       /\ \A i \in 1 .. TRAIL_MAX : trail[TRAIL_MAX].t <= trail[i].t]_vars

\* the trail was cut while it held entries of different ages
C15_Witness ==
  /\ last.kind = "mousemove"
  /\ Has(ops, "truncate")
  /\ Len(trail) = TRAIL_MAX
  /\ trail[2].t > trail[TRAIL_MAX].t

\* C16: while the instance is Active and the trail is not empty, the frame
\* callback in rafId is pending; with frames firing and time passing, a
\* non-empty trail leads to an empty trail with the loop stopped, unless the
\* instance is torn down or its newest entry cannot expire within MaxClock;
\* an accepted pointer-move on a stopped loop requests a frame.
C16_Horizon ==
  /\ trail # <<>>
  /\ \E lag \in FrameLags : trail[1].t + TRAIL_DURATION >= MaxClock - lag

C16_LoopRunsUntilEmpty ==
  /\ []((lifecycle = "Active" /\ trail # <<>>) =>
          (rafId # NULL /\ pending = {rafId}))
  /\ (lifecycle = "Active" /\ trail # <<>>)
       ~> \/ trail = <<>> /\ rafId = NULL /\ pending = {}
          \/ lifecycle = "TornDown"
          \/ C16_Horizon
  /\ [][(last'.kind = "mousemove" /\ clock' = clock /\ Has(ops', "unshift")
           /\ rafId = NULL) =>
          /\ rafId' # NULL
          /\ pending' = {rafId'}
          /\ Has(ops', "requestAnimationFrame")]_vars

\* a tick emptied the trail and stopped the loop, and a pointer-move
\* accepted after that started it again
C16_Witness ==
  /\ lifecycle = "Active"
  /\ last.kind = "mousemove"
  /\ Has(ops, "requestAnimationFrame")
  /\ rafId > 1
  /\ Len(trail) = 1
  /\ trail[1].t > TRAIL_DURATION

\* C17: at most one frame callback is pending at any time; before the
\* cleanup, rafId is non-null exactly when a callback is pending, and the
\* pending callback is then the one in rafId; a step never leaves two handles
\* pending where one was.
C17_SingleFrame ==
  /\ [](Cardinality(pending) <= 1)
  /\ [](lifecycle # "TornDown" =>
          /\ rafId # NULL <=> pending # {}
          /\ rafId # NULL => pending = {rafId})
  /\ [][pending # {} /\ pending' # pending => Cardinality(pending') <= 1]_vars

\* a second sample was accepted while a frame was pending and requested none
C17_Witness ==
  /\ last.kind = "mousemove"
  /\ ops = <<"unshift">>
  /\ Len(trail) = 2
  /\ pending = {rafId}
  /\ Cardinality(pending) = 1

\* C18: the timestamps of the trail never increase from index 0 to the tail,
\* so after a tick at `now`, which pops from the tail only, no entry is left
\* with a timestamp below now - TRAIL_DURATION.
C18_NewestFirst ==
  /\ \A i, j \in 1 .. Len(trail) : i <= j => trail[i].t >= trail[j].t
  /\ last.kind = "tick" =>
       \A i \in 1 .. Len(trail) : trail[i].t >= last.now - TRAIL_DURATION

\* a tick popped the older entry and kept the newer one
C18_Witness ==
  /\ last.kind = "tick"
  /\ Has(ops, "pop")
  /\ trail # <<>>
  /\ trail[1].t > 0
  /\ trail[1].t >= last.now - TRAIL_DURATION

\* C19: once the instance's life has ended, by the cleanup or by an exception
\* thrown while the effect compiled and linked the shaders, no GPU object
\* created by the mount is left undeleted.
C19_EndOfLife ==
  \/ lifecycle = "TornDown"
  \/ last.kind = "mount" /\ Has(ops, "throw")

C19_AllDeleted ==
  C19_EndOfLife => \A o \in GpuObjects : gpu[o] \in {"none", "deleted"}

\* C20: after every render, the influence stored for every trail entry is
\* between 0 and 1 (between 0 and TRAIL_DURATION in units of 1/TRAIL_DURATION).
C20_InfluenceInRange ==
  Rendered =>
    \A i \in 1 .. Len(trail) :
      /\ trailData[(i - 1) * 3 + 2] >= 0
      /\ trailData[(i - 1) * 3 + 2] <= TRAIL_DURATION

====
